---- MODULE Spec2Model ----
(***************************************************************************)
(* Tendon drape profile engine (src/services/calculationService.ts).       *)
(*                                                                         *)
(* Numbers.  A JavaScript number is modelled as a pair <<n, d>>:           *)
(*   d > 0  : the rational n/d in lowest terms (exact arithmetic; the      *)
(*            binary rounding error of IEEE doubles is not modelled),      *)
(*   <<1,0>>, <<-1,0>> : +Infinity, -Infinity,                             *)
(*   <<0,0>> : NaN.                                                        *)
(* The operators below follow the IEEE rules the code relies on: x/0 is    *)
(* an infinity or NaN, Infinity*0 and Infinity-Infinity are NaN, every     *)
(* comparison with NaN is false.  The sign of zero is not modelled.        *)
(***************************************************************************)
EXTENDS Integers, Sequences, FiniteSets, TLC

VARIABLES state, pc, segments, argX, retY, result, earlier

vars == <<state, pc, segments, argX, retY, result, earlier>>

----------------------------------------------------------------------------
(* Integer helpers *)

AbsInt(i) == IF i < 0 THEN -i ELSE i

SgnInt(i) == IF i < 0 THEN -1 ELSE IF i > 0 THEN 1 ELSE 0

RECURSIVE GCD(_, _)
GCD(a, b) == IF b = 0 THEN a ELSE GCD(b, a % b)

RECURSIVE Pow10(_)
Pow10(k) == IF k = 0 THEN 1 ELSE 10 * Pow10(k - 1)

----------------------------------------------------------------------------
(* JavaScript numbers *)

NaN == <<0, 0>>

PosInf == <<1, 0>>

NegInf == <<-1, 0>>

\* the number n/d (d # 0), in lowest terms with a positive denominator
Q(n, d) ==
  LET g == GCD(AbsInt(n), AbsInt(d))
      s == SgnInt(d)
  IN  <<s * (n \div g), s * (d \div g)>>

I(n) == <<n, 1>>

Zero == <<0, 1>>

IsNaN(a) == a = NaN

IsFinite(a) == a[2] # 0

IsInf(a) == a[2] = 0 /\ a[1] # 0

\* the sign of a number that is not NaN
Sgn(a) == SgnInt(a[1])

Neg(a) == <<-a[1], a[2]>>

\* a + b
Add(a, b) ==
  IF IsNaN(a) \/ IsNaN(b) THEN NaN
  ELSE IF IsInf(a) /\ IsInf(b) THEN (IF a = b THEN a ELSE NaN)
  ELSE IF IsInf(a) THEN a
  ELSE IF IsInf(b) THEN b
  ELSE LET g == GCD(a[2], b[2])
       IN  Q(a[1] * (b[2] \div g) + b[1] * (a[2] \div g), (a[2] \div g) * b[2])

\* a - b
Sub(a, b) == Add(a, Neg(b))

\* a * b
Mul(a, b) ==
  IF IsNaN(a) \/ IsNaN(b) THEN NaN
  ELSE IF IsInf(a) \/ IsInf(b)
       THEN (IF Sgn(a) * Sgn(b) = 0 THEN NaN ELSE <<Sgn(a) * Sgn(b), 0>>)
  ELSE LET g1 == GCD(AbsInt(a[1]), b[2])
           g2 == GCD(AbsInt(b[1]), a[2])
       IN  <<(a[1] \div g1) * (b[1] \div g2), (a[2] \div g2) * (b[2] \div g1)>>

\* a / b
Div(a, b) ==
  IF IsNaN(a) \/ IsNaN(b) THEN NaN
  ELSE IF IsInf(b) THEN (IF IsInf(a) THEN NaN ELSE Zero)
  ELSE IF b[1] = 0 THEN (IF a[1] = 0 THEN NaN ELSE <<Sgn(a), 0>>)
  ELSE IF IsInf(a) THEN <<Sgn(a) * Sgn(b), 0>>
  ELSE Mul(a, <<SgnInt(b[1]) * b[2], AbsInt(b[1])>>)

\* a < b
Lt(a, b) ==
  IF IsNaN(a) \/ IsNaN(b) THEN FALSE
  ELSE IF IsInf(a) \/ IsInf(b)
       THEN (IF IsInf(a) /\ IsInf(b) THEN a[1] < b[1]
             ELSE IF IsInf(a) THEN a[1] < 0 ELSE b[1] > 0)
  ELSE a[1] * b[2] < b[1] * a[2]

\* a > b
Gt(a, b) == Lt(b, a)

\* a <= b
Le(a, b) == ~IsNaN(a) /\ ~IsNaN(b) /\ ~Lt(b, a)

\* a >= b
Ge(a, b) == Le(b, a)

\* a === b
Eq(a, b) == ~IsNaN(a) /\ a = b

\* Math.abs
MathAbs(a) == <<AbsInt(a[1]), a[2]>>

\* Math.floor
MathFloor(a) == IF IsFinite(a) THEN I(a[1] \div a[2]) ELSE a

\* Math.round: the nearest integer, halves rounded up
MathRound(a) == IF IsFinite(a) THEN MathFloor(Add(a, Q(1, 2))) ELSE a

\* Math.min of two numbers
MathMin(a, b) == IF IsNaN(a) \/ IsNaN(b) THEN NaN ELSE IF Lt(b, a) THEN b ELSE a

\* Math.max of two numbers
MathMax(a, b) == IF IsNaN(a) \/ IsNaN(b) THEN NaN ELSE IF Lt(a, b) THEN b ELSE a

\* Math.pow(a, 2)
Sq(a) == Mul(a, a)

\* a % b: the remainder has the sign of the dividend
Rem(a, b) ==
  IF IsNaN(a) \/ IsNaN(b) \/ IsInf(a) THEN NaN
  ELSE IF IsInf(b) THEN a
  ELSE IF b[1] = 0 THEN NaN
  ELSE LET q == Div(MathAbs(a), MathAbs(b))
           r == Sub(MathAbs(a), Mul(MathFloor(q), MathAbs(b)))
       IN  IF a[1] < 0 THEN Neg(r) ELSE r

\* parseFloat(a.toFixed(k)): a rounded to k decimals, halves away from zero
ToFixed(a, k) ==
  IF ~IsFinite(a) THEN a
  ELSE LET m == MathFloor(Add(Mul(MathAbs(a), I(Pow10(k))), Q(1, 2)))
           r == Q(m[1], Pow10(k))
       IN  IF a[1] < 0 THEN Neg(r) ELSE r

----------------------------------------------------------------------------
(* calculateSpaces *)

\* not the code: an array one element short
FillOneLess(count, v) == [i \in 1..(count - 1) |-> v]

\* Array(count).fill(v)
Fill(count, v) == [i \in 1..count |-> v]

\* not the code: no tolerance in the exact-multiple test
toleranceNone == Zero

\* the split tolerance of the exact-multiple test
tolerance == Q(1, 100)

\* not the code: the distributor without the rule for metric spacing 1000,
\* every small remainder split evenly
calculateSpacesEvenSplit(length, spacing, unit) ==
  IF Le(length, Zero) \/ Le(spacing, Zero) THEN <<>>
  ELSE
    LET rem == Rem(length, spacing)
        count == MathFloor(Div(length, spacing))[1]
        totalStart == Add(spacing, rem)
        half == Div(totalStart, I(2))
        s1 == IF unit = "metric" THEN MathFloor(half) ELSE ToFixed(half, 2)
        s2 == Sub(totalStart, s1)
        standardCount == IF count - 1 > 0 THEN count - 1 ELSE 0
    IN  IF Lt(rem, tolerance) \/ Lt(MathAbs(Sub(rem, spacing)), tolerance)
        THEN Fill(count, spacing)
        ELSE IF Ge(rem, Mul(Q(7, 10), spacing))
        THEN <<rem>> \o Fill(count, spacing)
        ELSE <<s1, s2>> \o Fill(standardCount, spacing)

calculateSpaces(length, spacing, unit) ==
  IF Le(length, Zero) \/ Le(spacing, Zero) THEN <<>>
  ELSE
    LET rem == Rem(length, spacing)
        count == MathFloor(Div(length, spacing))[1]
        totalStart == Add(spacing, rem)
        half == Div(totalStart, I(2))
        s1 == IF unit = "metric" /\ Lt(MathAbs(Sub(spacing, I(1000))), I(1))
              THEN Mul(MathFloor(Div(totalStart, I(200))), I(100))
              ELSE IF unit = "metric" THEN MathFloor(half)
              ELSE ToFixed(half, 2)
        s2 == Sub(totalStart, s1)
        standardCount == IF count - 1 > 0 THEN count - 1 ELSE 0
    IN  IF Lt(rem, tolerance) \/ Lt(MathAbs(Sub(rem, spacing)), tolerance)
        THEN Fill(count, spacing)
        ELSE IF Ge(rem, Mul(Q(7, 10), spacing))
        THEN <<rem>> \o Fill(count, spacing)
        ELSE <<s1, s2>> \o Fill(standardCount, spacing)

----------------------------------------------------------------------------
(* Text of the inflection override: a sequence of one-character strings *)

IsSpace(c) == c = " "

IsDigit(c) == c \in {"0", "1", "2", "3", "4", "5", "6", "7", "8", "9"}

DigitVal(c) ==
  CASE c = "0" -> 0 [] c = "1" -> 1 [] c = "2" -> 2 [] c = "3" -> 3
    [] c = "4" -> 4 [] c = "5" -> 5 [] c = "6" -> 6 [] c = "7" -> 7
    [] c = "8" -> 8 [] c = "9" -> 9

RECURSIVE TrimStart(_)
TrimStart(s) ==
  IF s # <<>> /\ IsSpace(Head(s)) THEN TrimStart(Tail(s)) ELSE s

RECURSIVE TrimEnd(_)
TrimEnd(s) ==
  IF s # <<>> /\ IsSpace(s[Len(s)]) THEN TrimEnd(SubSeq(s, 1, Len(s) - 1)) ELSE s

\* String.prototype.trim
Trim(s) == TrimEnd(TrimStart(s))

\* String.prototype.endsWith, for a one-character suffix
EndsWith(s, c) == s # <<>> /\ s[Len(s)] = c

\* String.prototype.replace(c, ''): the first occurrence of c is removed
RECURSIVE ReplaceFirst(_, _)
ReplaceFirst(s, c) ==
  IF s = <<>> THEN <<>>
  ELSE IF Head(s) = c THEN Tail(s)
  ELSE <<Head(s)>> \o ReplaceFirst(Tail(s), c)

\* the length of the longest run of digits at the start of s
RECURSIVE DigitRun(_)
DigitRun(s) ==
  IF s # <<>> /\ IsDigit(Head(s)) THEN 1 + DigitRun(Tail(s)) ELSE 0

\* the value of a sequence of digits read as a decimal integer
RECURSIVE DigitsValue(_)
DigitsValue(s) ==
  IF s = <<>> THEN 0 ELSE 10 * DigitsValue(SubSeq(s, 1, Len(s) - 1)) + DigitVal(s[Len(s)])

\* parseFloat, after the sign: digits with an optional fraction; NaN when
\* there is no digit.  ni is the number of digits of the integer part.
ParseMagnitude(u, ni) ==
  LET nf == IF ni < Len(u) /\ u[ni + 1] = "."
            THEN DigitRun(SubSeq(u, ni + 2, Len(u))) ELSE 0
  IN  IF ni + nf = 0 THEN NaN
      ELSE Add(I(DigitsValue(SubSeq(u, 1, ni))),
               Q(DigitsValue(SubSeq(u, ni + 2, ni + 1 + nf)), Pow10(nf)))

\* parseFloat, after the leading blanks: an optional sign, then the number
ParseSigned(t) ==
  IF t # <<>> /\ Head(t) = "-" THEN Neg(ParseMagnitude(Tail(t), DigitRun(Tail(t))))
  ELSE IF t # <<>> /\ Head(t) = "+" THEN ParseMagnitude(Tail(t), DigitRun(Tail(t)))
  ELSE ParseMagnitude(t, DigitRun(t))

\* parseFloat: leading blanks, an optional sign, digits with an optional
\* fraction; what follows the number is ignored; NaN when there is no digit.
\* (Exponents and the literal Infinity are not in the model's alphabet.)
parseFloat(s) == ParseSigned(TrimStart(s))

----------------------------------------------------------------------------
(* calculateProfile: the closures over the AppState st *)

\* the absent override (overrideValue = null)
null == <<>>

\* not the code: the height difference taken in inches for imperial
absHByUnit(st) ==
  IF st.unit = "imperial"
  THEN Div(MathAbs(Sub(st.highPt, st.lowPt)), Q(127, 5))
  ELSE MathAbs(Sub(st.highPt, st.lowPt))

absH(st) == MathAbs(Sub(st.highPt, st.lowPt))

\* the override parsed from the trimmed text raw, or null
ParseOverride(st, raw) ==
  IF raw = <<>> THEN null
  ELSE IF EndsWith(raw, "%")
       THEN (IF ~IsNaN(parseFloat(ReplaceFirst(raw, "%")))
             THEN Mul(Div(parseFloat(ReplaceFirst(raw, "%")), I(100)), st.length)
             ELSE null)
       ELSE (IF ~IsNaN(parseFloat(raw)) THEN parseFloat(raw) ELSE null)

\* the parsed user override, or null
overrideValue(st) == ParseOverride(st, Trim(st.inflectionPt))

\* not the code: a valid override returned as it is, not limited to segLen
InflectionDistUnclamped(st, segLen, ov) ==
  IF ov # null /\ Gt(ov, Zero) THEN ov
  ELSE IF Le(segLen, Zero) \/ Eq(absH(st), Zero) THEN Zero
  ELSE MathMin(Div(Mul(Mul(I(4), absH(st)), st.minRadius), Mul(I(2), segLen)),
               Div(segLen, I(2)))

\* not the code: every parsed override used, whatever its sign
InflectionDistAnySign(st, segLen, ov) ==
  IF ov # null THEN MathMin(ov, segLen)
  ELSE IF Le(segLen, Zero) \/ Eq(absH(st), Zero) THEN Zero
  ELSE MathMin(Div(Mul(Mul(I(4), absH(st)), st.minRadius), Mul(I(2), segLen)),
               Div(segLen, I(2)))

\* not the code: the auto distance not limited to half the segment
InflectionDistPastMid(st, segLen, ov) ==
  IF ov # null /\ Gt(ov, Zero) THEN MathMin(ov, segLen)
  ELSE IF Le(segLen, Zero) \/ Eq(absH(st), Zero) THEN Zero
  ELSE Div(Mul(Mul(I(4), absH(st)), st.minRadius), Mul(I(2), segLen))

\* getInflectionDist, the override ov being parsed
InflectionDist(st, segLen, ov) ==
  IF ov # null /\ Gt(ov, Zero) THEN MathMin(ov, segLen)
  ELSE IF Le(segLen, Zero) \/ Eq(absH(st), Zero) THEN Zero
  ELSE MathMin(Div(Mul(Mul(I(4), absH(st)), st.minRadius), Mul(I(2), segLen)),
               Div(segLen, I(2)))

getInflectionDist(st, segLen) == InflectionDist(st, segLen, overrideValue(st))

----------------------------------------------------------------------------
(* calculateY: the pieces of the piecewise variants, then the switch *)

\* case 1: vertex at the low point
Y1(st, x) ==
  Add(Mul(Div(Sub(st.highPt, st.lowPt), Sq(st.length)), Sq(Sub(x, st.length))),
      st.lowPt)

\* case 2, x < x_infl: the reverse curve; A = h / (x_infl * length)
Y2Reverse(st, x_infl, x) ==
  Sub(st.highPt,
      Mul(Mul(Div(Sub(st.highPt, st.lowPt), Mul(x_infl, st.length)), x), x))

\* not the code: the main parabola of case 2 fitted over the whole span,
\* without regard to the transition point
Y2MainWholeSpan(st, x_infl, x) ==
  Add(st.lowPt,
      Mul(Div(Sub(st.highPt, st.lowPt), Mul(st.length, st.length)),
          Sq(Sub(x, st.length))))

\* case 2, x >= x_infl: the main parabola; B = h / (length * (length - x_infl))
Y2Main(st, x_infl, x) ==
  Add(st.lowPt,
      Mul(Div(Sub(st.highPt, st.lowPt), Mul(st.length, Sub(st.length, x_infl))),
          Sq(Sub(x, st.length))))

\* case 2
Case2(st, x_infl, x) ==
  IF Lt(x, x_infl) THEN Y2Reverse(st, x_infl, x) ELSE Y2Main(st, x_infl, x)

\* case 3, xx < x_infl: the reverse curve of the half span
Y3Reverse(st, mid, x_infl, xx) ==
  Sub(st.highPt,
      Mul(Mul(Div(Sub(st.highPt, st.lowPt), Mul(x_infl, mid)), xx), xx))

\* case 3, xx >= x_infl: the main parabola of the half span
Y3Main(st, mid, x_infl, xx) ==
  Add(st.lowPt,
      Mul(Div(Sub(st.highPt, st.lowPt), Mul(mid, Sub(mid, x_infl))),
          Sq(Sub(xx, mid))))

\* case 3, in the mirrored coordinate xx
Case3(st, mid, x_infl, xx) ==
  IF Lt(xx, x_infl) THEN Y3Reverse(st, mid, x_infl, xx)
  ELSE Y3Main(st, mid, x_infl, xx)

\* case 4: parabolic ends between 0, x1, x2 and length, flat middle
Case4(st, x1, x2, x) ==
  IF Lt(x, x1)
  THEN Add(Mul(Div(Sub(st.highPt, st.lowPt), Sq(x1)), Sq(Sub(x, x1))), st.lowPt)
  ELSE IF Gt(x, x2)
  THEN Add(Mul(Div(Sub(st.highPt, st.lowPt), Sq(Sub(st.length, x2))),
               Sq(Sub(x, x2))), st.lowPt)
  ELSE st.lowPt

\* case 4: r = 0.25
Y4(st, x) == Case4(st, Mul(st.length, Q(1, 4)), Mul(st.length, Sub(I(1), Q(1, 4))), x)

\* case 5: the coefficient shared by both pieces
A5(st, x_infl) ==
  Div(Sub(st.highPt, st.lowPt),
      Sub(Mul(Mul(I(2), st.length), x_infl), Mul(x_infl, x_infl)))

\* case 5, x < x_infl: the reverse curve at the top end
Y5Parabola(st, x_infl, x) == Sub(st.highPt, Mul(Mul(A5(st, x_infl), x), x))

\* not the code: the straight segment of case 5 with half the tangent slope
Y5LineHalfSlope(st, x_infl, x) ==
  Add(Mul(Mul(Mul(I(-1), A5(st, x_infl)), x_infl), Sub(x, x_infl)),
      Sub(st.highPt, Mul(Mul(A5(st, x_infl), x_infl), x_infl)))

\* case 5, x >= x_infl: the straight segment m * (x - x_infl) + y_infl
Y5Line(st, x_infl, x) ==
  Add(Mul(Mul(Mul(I(-2), A5(st, x_infl)), x_infl), Sub(x, x_infl)),
      Sub(st.highPt, Mul(Mul(A5(st, x_infl), x_infl), x_infl)))

\* case 5
Case5(st, x_infl, x) ==
  IF Lt(x, x_infl) THEN Y5Parabola(st, x_infl, x) ELSE Y5Line(st, x_infl, x)

\* case 6: the coefficient shared by both pieces
A6(st, xt) ==
  Div(Sub(st.highPt, st.lowPt), Sub(Mul(st.length, st.length), Mul(xt, xt)))

\* case 6, x < xt: the straight segment m * (x - xt) + y_xt
Y6Line(st, xt, x) ==
  Add(Mul(Mul(Mul(I(2), A6(st, xt)), Sub(xt, st.length)), Sub(x, xt)),
      Add(st.lowPt, Mul(A6(st, xt), Sq(Sub(xt, st.length)))))

\* case 6, x >= xt: the reverse curve at the bottom end
Y6Parabola(st, xt, x) == Add(st.lowPt, Mul(A6(st, xt), Sq(Sub(x, st.length))))

\* case 6
Case6(st, xt, x) ==
  IF Lt(x, xt) THEN Y6Line(st, xt, x) ELSE Y6Parabola(st, xt, x)

\* not the code: the parabola of case 7 with twice the curvature
Y7Doubled(st, x) ==
  Add(Mul(Mul(Mul(I(2), Div(Sub(st.lowPt, st.highPt), Sq(st.length))), x), x),
      st.highPt)

\* case 7: vertex at the high point
Y7(st, x) ==
  Add(Mul(Mul(Div(Sub(st.lowPt, st.highPt), Sq(st.length)), x), x), st.highPt)

\* case 8: two parabolas meeting at (mid, midY)
Case8(st, mid, midY, x) ==
  IF Lt(x, mid)
  THEN Sub(st.highPt, Mul(Mul(Div(Sub(st.highPt, midY), Mul(mid, mid)), x), x))
  ELSE Add(st.lowPt,
           Mul(Div(Sub(midY, st.lowPt), Sq(Sub(mid, st.length))),
               Sq(Sub(x, st.length))))

\* not the code: the two parabolas of case 8 meeting at the low height
Y8LowMid(st, x) == Case8(st, Div(st.length, I(2)), st.lowPt, x)

\* case 8
Y8(st, x) ==
  Case8(st, Div(st.length, I(2)), Div(Add(st.highPt, st.lowPt), I(2)), x)

\* default: the straight line between the end points
YDefault(st, x) ==
  Add(st.highPt, Mul(Sub(st.lowPt, st.highPt), Div(x, st.length)))

\* the segment the transition distance is measured in: the half span in
\* case 3, the span in cases 2, 5 and 6
SegLen(st) ==
  IF st.selectedProfile = 3 THEN Div(st.length, I(2)) ELSE st.length

\* the switch, x_infl being getInflectionDist of the case's segment
Switch(st, x_infl, x) ==
  CASE st.selectedProfile = 1 -> Y1(st, x)
    [] st.selectedProfile = 2 -> Case2(st, x_infl, x)
    [] st.selectedProfile = 3 ->
         Case3(st, SegLen(st), x_infl,
               IF Lt(x, SegLen(st)) THEN x ELSE Sub(st.length, x))
    [] st.selectedProfile = 4 -> Y4(st, x)
    [] st.selectedProfile = 5 -> Case5(st, x_infl, x)
    [] st.selectedProfile = 6 -> Case6(st, Sub(st.length, x_infl), x)
    [] st.selectedProfile = 7 -> Y7(st, x)
    [] st.selectedProfile = 8 -> Y8(st, x)
    [] OTHER -> YDefault(st, x)

calculateY(st, x) == Switch(st, getInflectionDist(st, SegLen(st)), x)

\* not the code: rounding down to the increment
roundValueDown(st, val) == Mul(MathFloor(Div(val, st.rounding)), st.rounding)

roundValue(st, val) == Mul(MathRound(Div(val, st.rounding)), st.rounding)

----------------------------------------------------------------------------
(* calculateProfile: sampling, safety net, summary *)

\* one sample: its position, raw height and rounded label
Point(st, px) ==
  LET py == calculateY(st, px)
  IN  [x |-> px, y |-> py, label |-> roundValue(st, py)]

\* points.push(p); drapes.push(p.label)
Push(acc, p) ==
  [acc EXCEPT !.points = Append(@, p), !.drapes = Append(@, p.label)]

\* not the code: the accumulated position left as it is
ClampXNone(st, currentX) == currentX

\* "Prevent small floating point overshoot"
ClampX(st, currentX) ==
  IF Gt(currentX, Sub(st.length, Q(1, 1000))) THEN st.length ELSE currentX

\* the loop over the segments, from segment i on, currentX being the last x
RECURSIVE SampleLoop(_, _, _, _)
SampleLoop(st, i, currentX, acc) ==
  IF i > Len(acc.spaces) THEN acc
  ELSE LET cx == ClampX(st, Add(currentX, acc.spaces[i]))
       IN  SampleLoop(st, i + 1, cx, Push(acc, Point(st, cx)))

\* not the code: a safety net that adds the end point but no segment
SafetyNetPointOnly(st, acc) ==
  LET lastPt == acc.points[Len(acc.points)]
  IN  IF Gt(MathAbs(Sub(lastPt.x, st.length)), I(1))
      THEN Push(acc, Point(st, st.length))
      ELSE acc

\* "Force last point to be exactly L/LowPt if not reached (safety)"
SafetyNet(st, acc) ==
  LET lastPt == acc.points[Len(acc.points)]
  IN  IF Gt(MathAbs(Sub(lastPt.x, st.length)), I(1))
      THEN [Push(acc, Point(st, st.length)) EXCEPT
              !.spaces = Append(@, Sub(st.length, lastPt.x))]
      ELSE acc

\* the start point pushed, and the segments of the span
Start(st, p) ==
  [points |-> <<p>>, drapes |-> <<p.label>>,
   spaces |-> calculateSpaces(st.length, st.spacing, st.unit)]

\* the sampler: start point, loop, safety net
samplePoints(st) ==
  SafetyNet(st, SampleLoop(st, 1, Zero, Start(st, Point(st, Zero))))

\* not the code: the beta summation of the signed height difference
betaSumSigned(st) ==
  IF Gt(st.length, Zero)
  THEN Div(Mul(I(4), Sub(st.highPt, st.lowPt)), st.length) ELSE Zero

betaSum(st) ==
  IF Gt(st.length, Zero) THEN Div(Mul(I(4), absH(st)), st.length) ELSE Zero

\* not the code: every candidate kept, interior or not
addIpAlways(st, ips, px) == Append(ips, [x |-> px, y |-> calculateY(st, px)])

addIp(st, ips, px) ==
  IF Gt(px, Zero) /\ Lt(px, st.length)
  THEN Append(ips, [x |-> px, y |-> calculateY(st, px)])
  ELSE ips

\* not the code: the candidates added whatever the sag is
inflectionPointsAnySag(st) ==
  LET p == st.selectedProfile
      dist == getInflectionDist(st, Div(st.length, I(2)))
      r == Q(1, 4)
  IN  IF p = 2 \/ p = 5 THEN addIp(st, <<>>, getInflectionDist(st, st.length))
      ELSE IF p = 6
           THEN addIp(st, <<>>, Sub(st.length, getInflectionDist(st, st.length)))
      ELSE IF p = 3 THEN addIp(st, addIp(st, <<>>, dist), Sub(st.length, dist))
      ELSE IF p = 4
           THEN addIp(st, addIp(st, <<>>, Mul(st.length, r)),
                      Mul(st.length, Sub(I(1), r)))
      ELSE IF p = 8 THEN addIp(st, <<>>, Div(st.length, I(2)))
      ELSE <<>>

\* not the code: the distance of variant 3 measured in the whole span
inflectionPointsWholeSpan(st) ==
  LET p == st.selectedProfile
      dist == getInflectionDist(st, st.length)
      r == Q(1, 4)
  IN  IF ~(Gt(absH(st), Zero) \/ p = 4 \/ p = 8) THEN <<>>
      ELSE IF p = 2 \/ p = 5 THEN addIp(st, <<>>, getInflectionDist(st, st.length))
      ELSE IF p = 6
           THEN addIp(st, <<>>, Sub(st.length, getInflectionDist(st, st.length)))
      ELSE IF p = 3 THEN addIp(st, addIp(st, <<>>, dist), Sub(st.length, dist))
      ELSE IF p = 4
           THEN addIp(st, addIp(st, <<>>, Mul(st.length, r)),
                      Mul(st.length, Sub(I(1), r)))
      ELSE IF p = 8 THEN addIp(st, <<>>, Div(st.length, I(2)))
      ELSE <<>>

inflectionPoints(st) ==
  LET p == st.selectedProfile
      dist == getInflectionDist(st, Div(st.length, I(2)))
      r == Q(1, 4)
  IN  IF ~(Gt(absH(st), Zero) \/ p = 4 \/ p = 8) THEN <<>>
      ELSE IF p = 2 \/ p = 5 THEN addIp(st, <<>>, getInflectionDist(st, st.length))
      ELSE IF p = 6
           THEN addIp(st, <<>>, Sub(st.length, getInflectionDist(st, st.length)))
      ELSE IF p = 3 THEN addIp(st, addIp(st, <<>>, dist), Sub(st.length, dist))
      ELSE IF p = 4
           THEN addIp(st, addIp(st, <<>>, Mul(st.length, r)),
                      Mul(st.length, Sub(I(1), r)))
      ELSE IF p = 8 THEN addIp(st, <<>>, Div(st.length, I(2)))
      ELSE <<>>

\* the returned record, acc holding the sampled points, drapes and spaces
Return(st, acc) ==
  [points |-> acc.points,
   drapes |-> acc.drapes,
   spaces |-> acc.spaces,
   betaSum |-> ToFixed(betaSum(st), 3),
   inflectionPoints |-> inflectionPoints(st)]

calculateProfile(st) == Return(st, samplePoints(st))

----------------------------------------------------------------------------
(* The application state and its initial value (App.tsx) *)

Units == {"metric", "imperial"}

\* of the fields calculateProfile does not read, anchors stands for all
DEFAULT_STATE ==
  [unit |-> "metric", anchors |-> "none", minRadius |-> I(3200),
   rounding |-> I(1), spacing |-> I(1000), selectedProfile |-> 1,
   length |-> I(7000), highPt |-> I(450), lowPt |-> I(45),
   inflectionPt |-> <<>>]

\* useState<CalculationResult>: the result before the first calculation
EmptyResult ==
  [points |-> <<>>, drapes |-> <<>>, spaces |-> <<>>, betaSum |-> Zero,
   inflectionPoints |-> <<>>]

----------------------------------------------------------------------------
(* Bounded inputs *)

\* lengths 100*k, k up to MaxHundreds, for the metric-1000 rule
MaxHundreds == 72

\* lengths k/4, k up to MaxQuarters
MaxQuarters == 24

\* integer lengths of the sampled configurations
MaxLen == 8

\* integer lengths of the configurations calculateY is applied to
MaxLenY == 4

\* end heights 0..MaxHeight
MaxHeight == 2

\* texts of the inflection override: empty, blank, not a number, zero,
\* negative, absolute distances, percentages, and a number with a tail
Texts ==
  { <<>>, <<" ">>, <<"a">>, <<"0">>, <<"-", "1">>, <<"0", "%">>,
    <<"1">>, <<" ", "1", ".", "5", " ">>, <<"2", "m", "m">>, <<"9", "9">>,
    <<"2", "5", "%">>, <<"5", "0", "%">>, <<"1", "0", "0", "%">> }

\* lengths near a multiple of the spacing, and below 1
NearLengths ==
  { Q(1, 200), Q(1, 2), Q(3, 2), Q(399, 200), Q(401, 200), Q(799, 200),
    Q(2001, 200) }

SpacesLengths ==
  {I(100 * k) : k \in -1..MaxHundreds} \cup {Q(k, 4) : k \in -1..MaxQuarters}
    \cup NearLengths

SpacesSpacings == {I(-1), Zero, Q(1, 2), I(1), I(2), I(300), Q(1999, 2), I(1000)}

SpacesStates ==
  { [DEFAULT_STATE EXCEPT !.length = l, !.spacing = s, !.unit = u] :
      l \in SpacesLengths, s \in SpacesSpacings, u \in Units }

YStates ==
  { [DEFAULT_STATE EXCEPT !.selectedProfile = p, !.length = I(l),
       !.highPt = I(hi), !.lowPt = I(lo), !.minRadius = I(r), !.inflectionPt = t] :
      p \in 1..9, l \in 1..MaxLenY, hi \in 0..MaxHeight, lo \in 0..MaxHeight,
      r \in {0, 1, 4}, t \in Texts }

\* the arguments calculateY is applied to: the ends, the quarter points and
\* the transition points of the variants
XSamples(st) ==
  LET L == st.length
      d == getInflectionDist(st, L)
      dm == getInflectionDist(st, Div(L, I(2)))
  IN  { Zero, L, Div(L, I(2)), Div(L, I(4)), Mul(L, Q(3, 4)),
        d, Sub(L, d), dm, Sub(L, dm) }

\* configurations that exercise the distributor and the sampler
SamplingStates ==
  { [DEFAULT_STATE EXCEPT !.selectedProfile = p, !.length = l, !.spacing = s,
       !.unit = u, !.highPt = I(5), !.lowPt = I(2), !.minRadius = I(4)] :
      p \in {1, 5}, u \in Units, s \in {I(-1), Zero, Q(1, 2), I(1), I(2), I(5)},
      l \in {I(k) : k \in -2..MaxLen} \cup NearLengths }

\* configurations that exercise the geometry of every variant
GeometryStates ==
  { [DEFAULT_STATE EXCEPT !.selectedProfile = p, !.length = I(l), !.spacing = I(3),
       !.highPt = I(hi), !.lowPt = I(lo), !.minRadius = I(r), !.inflectionPt = t,
       !.rounding = rd] :
      p \in 1..9, l \in {0, 4}, hi \in 0..MaxHeight, lo \in 0..MaxHeight,
      r \in {0, 1, 4}, t \in Texts, rd \in {I(1), Q(1, 4)} }

\* the initial configuration of the application is among the configurations
ProfileStates == SamplingStates \cup GeometryStates \cup {DEFAULT_STATE}

\* heights k/8, k from -MaxEighths to MaxEighths
MaxEighths == 24

\* rounding increments and heights roundValue is applied to
RoundStates ==
  { [DEFAULT_STATE EXCEPT !.rounding = inc] :
      inc \in {Q(1, 10), Q(1, 4), Q(1, 2), I(1), I(3), I(5)} }

Heights == {Q(k, 8) : k \in -MaxEighths..MaxEighths}

\* configurations getInflectionDist is applied to: degenerate and regular
\* spans, every override text
InflectionStates ==
  { [DEFAULT_STATE EXCEPT !.length = I(l), !.highPt = I(hi), !.lowPt = I(lo),
       !.minRadius = I(r), !.inflectionPt = t] :
      l \in -1..MaxLenY, hi \in 0..MaxHeight, lo \in 0..MaxHeight,
      r \in {0, 1, 4}, t \in Texts }

----------------------------------------------------------------------------
(* Specifications *)

\* the variables an operation has not written yet
Idle ==
  /\ pc = "ready"
  /\ segments = <<>>
  /\ argX = Zero
  /\ retY = Zero
  /\ result = EmptyResult
  /\ earlier = <<>>

\* calculateSpaces applied to a bounded input
InitSpaces == state \in SpacesStates /\ Idle

CallCalculateSpaces ==
  /\ pc = "ready"
  /\ segments' = calculateSpaces(state.length, state.spacing, state.unit)
  /\ pc' = "done"
  /\ UNCHANGED <<state, argX, retY, result, earlier>>

NextSpaces == CallCalculateSpaces

SpecSpaces == InitSpaces /\ [][NextSpaces]_vars

\* calculateY applied to a bounded configuration and argument
InitY == state \in YStates /\ Idle

CallCalculateY ==
  /\ pc = "ready"
  /\ \E px \in XSamples(state) :
       /\ argX' = px
       /\ retY' = calculateY(state, px)
  /\ pc' = "done"
  /\ UNCHANGED <<state, segments, result, earlier>>

NextY == CallCalculateY

SpecY == InitY /\ [][NextY]_vars

\* getInflectionDist applied to the span (variants 2, 5, 6) or to the half
\* span (variant 3) of a bounded configuration
InitInflection == state \in InflectionStates /\ Idle

CallGetInflectionDist ==
  /\ pc = "ready"
  /\ \E segLen \in {state.length, Div(state.length, I(2))} :
       /\ argX' = segLen
       /\ retY' = getInflectionDist(state, segLen)
  /\ pc' = "done"
  /\ UNCHANGED <<state, segments, result, earlier>>

NextInflection == CallGetInflectionDist

SpecInflection == InitInflection /\ [][NextInflection]_vars

\* roundValue applied to a height
InitRound == state \in RoundStates /\ Idle

CallRoundValue ==
  /\ pc = "ready"
  /\ \E val \in Heights :
       /\ argX' = val
       /\ retY' = roundValue(state, val)
  /\ pc' = "done"
  /\ UNCHANGED <<state, segments, result, earlier>>

NextRound == CallRoundValue

SpecRound == InitRound /\ [][NextRound]_vars

\* calculateProfile applied to a bounded configuration
Init == state \in ProfileStates /\ Idle

CallCalculateProfile ==
  /\ pc = "ready"
  /\ result' = calculateProfile(state)
  /\ pc' = "done"
  /\ UNCHANGED <<state, segments, argX, retY, earlier>>

Next == CallCalculateProfile

Spec == Init /\ [][Next]_vars

----------------------------------------------------------------------------
(* The application (src/App.tsx): the configuration, the stored result,   *)
(* and the effect that recalculates.  pc is "pending" while an effect is  *)
(* scheduled and "idle" otherwise; a scheduled effect runs before the     *)
(* next event is handled.  earlier holds at most one earlier call of      *)
(* calculateProfile, its input and its output.                            *)

DigitChars == <<"0", "1", "2", "3", "4", "5", "6", "7", "8", "9">>

RECURSIVE NatToString(_)
NatToString(n) ==
  IF n < 10 THEN <<DigitChars[n + 1]>>
  ELSE Append(NatToString(n \div 10), DigitChars[(n % 10) + 1])

\* the decimals of c hundredths, without trailing zeros
FractionToString(c) ==
  IF c = 0 THEN <<>>
  ELSE IF c % 10 = 0 THEN <<".", DigitChars[(c \div 10) + 1]>>
  ELSE <<".", DigitChars[(c \div 10) + 1], DigitChars[(c % 10) + 1]>>

\* the hundredths h of a number, as text
HundredthsToString(h) ==
  NatToString(h \div 100) \o FractionToString(h % 100)

\* Number.prototype.toString of a finite number with at most 2 decimals
NumberToString(a) ==
  IF a[1] < 0 THEN <<"-">> \o HundredthsToString((-a[1] * 100) \div a[2])
  ELSE HundredthsToString((a[1] * 100) \div a[2])

\* unitConverter: 25.4 mm to the inch, rounded to precision decimals
convertSimple(value, targetUnit, precision) ==
  ToFixed(IF targetUnit = "imperial" THEN Div(value, Q(127, 5))
          ELSE Mul(value, Q(127, 5)),
          precision)

convertField(value, targetUnit, field) ==
  IF targetUnit = "imperial"
  THEN CASE field = "general" -> convertSimple(value, targetUnit, 2)
         [] field = "diameter" -> convertSimple(value, targetUnit, 2)
         [] field = "eccentricity" -> convertSimple(value, targetUnit, 3)
         [] field = "large_radius" -> convertSimple(value, targetUnit, 0)
  ELSE CASE field = "general" -> convertSimple(value, targetUnit, 0)
         [] field = "diameter" -> convertSimple(value, targetUnit, 1)
         [] field = "eccentricity" -> convertSimple(value, targetUnit, 1)
         [] field = "large_radius" -> convertSimple(value, targetUnit, 0)

\* toggleUnit: the numeric fields and the rounding default of the new unit
ToggleNumbers(st, newUnit) ==
  [st EXCEPT !.unit = newUnit,
     !.length = convertField(st.length, newUnit, "general"),
     !.highPt = convertField(st.highPt, newUnit, "general"),
     !.lowPt = convertField(st.lowPt, newUnit, "general"),
     !.minRadius = convertField(st.minRadius, newUnit, "large_radius"),
     !.spacing = convertField(st.spacing, newUnit, "large_radius"),
     !.rounding = IF newUnit = "imperial" THEN Q(1, 4) ELSE I(1)]

\* toggleUnit: an absolute override is converted as well
ToggleText(st, newUnit, val) ==
  IF st.inflectionPt # <<>> /\ ~EndsWith(st.inflectionPt, "%") /\ ~IsNaN(val)
  THEN [ToggleNumbers(st, newUnit) EXCEPT !.inflectionPt =
          NumberToString(convertSimple(val, newUnit,
                                       IF newUnit = "imperial" THEN 2 ELSE 0))]
  ELSE ToggleNumbers(st, newUnit)

\* the configuration toggleUnit sets
toggleUnit(st) ==
  ToggleText(st, IF st.unit = "metric" THEN "imperial" ELSE "metric",
             parseFloat(st.inflectionPt))

\* not the code: a dependency list without the selected profile
DepsWithoutProfile(st) ==
  <<st.length, st.highPt, st.lowPt, st.spacing, st.rounding, st.minRadius,
    st.inflectionPt, st.unit>>

\* the dependency list of the recalculating effect
Deps(st) ==
  <<st.selectedProfile, st.length, st.highPt, st.lowPt, st.spacing,
    st.rounding, st.minRadius, st.inflectionPt, st.unit>>

\* setState: the next render, the effect scheduled when a dependency changed
SetState(st) ==
  /\ pc = "idle"
  /\ state' = st
  /\ pc' = IF Deps(st) # Deps(state) THEN "pending" ELSE pc
  /\ UNCHANGED <<segments, argX, retY, result, earlier>>

\* spans for which the unit toggle is followed: up to MaxToggleLength
MaxToggleLength == 300

\* the span a user types: 254 mm, or 10 in
EditLengths(unit) == IF unit = "metric" THEN {I(254)} ELSE {I(10)}

\* the override a user types
EditTexts == {<<>>, <<"1">>}

\* the variants a user selects
EditProfiles == {1, 5}

\* useState: the initial render, the effects of the mount pending
InitApp ==
  /\ state = DEFAULT_STATE
  /\ pc = "pending"
  /\ segments = <<>>
  /\ argX = Zero
  /\ retY = Zero
  /\ result = EmptyResult
  /\ earlier = <<>>

\* the Total Length input
EditLength ==
  \E v \in EditLengths(state.unit) : SetState([state EXCEPT !.length = v])

\* the Inflection Pt. input
EditInflection ==
  \E t \in EditTexts : SetState([state EXCEPT !.inflectionPt = t])

\* the profile selector
SelectProfile ==
  \E id \in EditProfiles : SetState([state EXCEPT !.selectedProfile = id])

\* the Flip Ends button
FlipEnds ==
  SetState([state EXCEPT !.highPt = state.lowPt, !.lowPt = state.highPt])

\* the unit buttons
ToggleUnit ==
  /\ Le(state.length, I(MaxToggleLength))
  /\ SetState(toggleUnit(state))

\* the Anchors radio buttons
ChangeAnchors ==
  \E a \in {"none", "both"} : SetState([state EXCEPT !.anchors = a])

\* an earlier call, and this call of input st and output res if remembered
Remember(st, res) ==
  IF earlier = <<>> THEN {<<>>, <<[input |-> st, output |-> res]>>}
  ELSE {earlier}

\* not the code: a calculation that appends its segments to the stored ones
performCalculationAppending ==
  /\ result' = [calculateProfile(state) EXCEPT
                  !.spaces = result.spaces \o @]
  /\ earlier' \in Remember(state, result')
  /\ UNCHANGED <<state, segments, argX, retY>>

\* performCalculation: setResult(calculateProfile(state))
performCalculation ==
  /\ result' = calculateProfile(state)
  /\ earlier' \in Remember(state, result')
  /\ UNCHANGED <<state, segments, argX, retY>>

\* the Calc button
ClickCalc ==
  /\ pc = "idle"
  /\ performCalculation
  /\ UNCHANGED pc

\* the effect of the mount and of a changed dependency
RunEffect ==
  /\ pc = "pending"
  /\ performCalculation
  /\ pc' = "idle"

NextApp ==
  \/ EditLength
  \/ EditInflection
  \/ SelectProfile
  \/ FlipEnds
  \/ ToggleUnit
  \/ ChangeAnchors
  \/ ClickCalc
  \/ RunEffect

SpecApp == InitApp /\ [][NextApp]_vars

----------------------------------------------------------------------------
(* Helpers of the properties *)

RECURSIVE SumSeq(_)
SumSeq(s) == IF s = <<>> THEN Zero ELSE Add(Head(s), SumSeq(Tail(s)))

XInfl(st) == getInflectionDist(st, SegLen(st))

\* where the two pieces of variants 2, 3, 5 and 6 meet
TransitionX(st) ==
  IF st.selectedProfile = 6 THEN Sub(st.length, XInfl(st)) ELSE XInfl(st)

\* the piece left of the transition point
LeftPiece(st, t) ==
  CASE st.selectedProfile = 2 -> Y2Reverse(st, XInfl(st), t)
    [] st.selectedProfile = 3 -> Y3Reverse(st, SegLen(st), XInfl(st), t)
    [] st.selectedProfile = 5 -> Y5Parabola(st, XInfl(st), t)
    [] st.selectedProfile = 6 -> Y6Line(st, TransitionX(st), t)

\* the piece right of the transition point
RightPiece(st, t) ==
  CASE st.selectedProfile = 2 -> Y2Main(st, XInfl(st), t)
    [] st.selectedProfile = 3 -> Y3Main(st, SegLen(st), XInfl(st), t)
    [] st.selectedProfile = 5 -> Y5Line(st, XInfl(st), t)
    [] st.selectedProfile = 6 -> Y6Parabola(st, TransitionX(st), t)

\* the first derivative at t of a piece P that is a polynomial of degree at
\* most 2: for such P the central difference over [t-1, t+1] is exact
Slope(P(_, _), st, t) ==
  Div(Sub(P(st, Add(t, I(1))), P(st, Sub(t, I(1)))), I(2))

\* a piecewise variant whose transition point lies strictly inside its segment
ContinuityCase(st) ==
  /\ st.selectedProfile \in {2, 3, 5, 6}
  /\ Gt(st.length, Zero)
  /\ st.highPt # st.lowPt
  /\ Gt(XInfl(st), Zero)
  /\ Lt(XInfl(st), SegLen(st))

\* calculateY has been applied at the transition point of such a variant
AtTransition ==
  pc = "done" /\ ContinuityCase(state) /\ argX = TransitionX(state)

Epsilon == Q(1, 1000000)

----------------------------------------------------------------------------
(* Properties *)

\* C1: for length > 0 and spacing > 0 and either unit, the segments returned
\* by calculateSpaces sum to length within a tolerance of 1 unit.
SegmentSum ==
  (pc = "done" /\ Gt(state.length, Zero) /\ Gt(state.spacing, Zero))
    => Le(MathAbs(Sub(SumSeq(segments), state.length)), I(1))

\* C2: for the variants 1, 2, 3, 5, 6, 7, 8 and length > 0, calculateY(0) is
\* highPt and calculateY(length) is lowPt.
EndpointProperty ==
  (pc = "done" /\ state.selectedProfile \in {1, 2, 3, 5, 6, 7, 8}
     /\ Gt(state.length, Zero))
    => /\ argX = Zero => retY = state.highPt
       /\ argX = state.length => retY = state.lowPt

\* C3: for length > 0, spacing > 0, rounding > 0, a variant 1-8, any override
\* text and minRadius >= 0, every point's y and label and every inflection
\* point's y is a finite number.
WellDefined ==
  (pc = "done" /\ Gt(state.length, Zero) /\ Gt(state.spacing, Zero)
     /\ Gt(state.rounding, Zero) /\ state.selectedProfile \in 1..8
     /\ Ge(state.minRadius, Zero))
    => /\ \A i \in 1..Len(result.points) :
            IsFinite(result.points[i].y) /\ IsFinite(result.points[i].label)
       /\ \A i \in 1..Len(result.inflectionPoints) :
            IsFinite(result.inflectionPoints[i].y)

\* C4: for the variants 2, 3, 5, 6 with length > 0, highPt # lowPt and the
\* transition point strictly inside the segment, the piece left of the
\* transition point and the value calculateY returns there (the piece right
\* of it) differ by less than 1e-6.
ValueContinuity ==
  AtTransition
    => /\ retY = RightPiece(state, argX)
       /\ Lt(MathAbs(Sub(LeftPiece(state, argX), retY)), Epsilon)

\* C4 happens: variant 2 in auto mode, transition strictly inside the span
ValueContinuityReached ==
  /\ AtTransition
  /\ state.selectedProfile = 2
  /\ state.inflectionPt = <<>>
  /\ Lt(state.lowPt, retY) /\ Lt(retY, state.highPt)

\* C5: under the same conditions the first derivative of the piece left of
\* the transition point equals that of the piece right of it (within 1e-6).
SlopeContinuity ==
  AtTransition
    => Lt(MathAbs(Sub(Slope(LeftPiece, state, argX),
                      Slope(RightPiece, state, argX))), Epsilon)

\* C5 happens: variant 6 with an override, line and parabola of non-zero slope
SlopeContinuityReached ==
  /\ AtTransition
  /\ state.selectedProfile = 6
  /\ overrideValue(state) # null
  /\ Gt(overrideValue(state), Zero)
  /\ Slope(LeftPiece, state, argX) # Zero

\* C6: when length <= 0 or spacing <= 0 the result has no segment and at
\* most one point.
DegenerateInput ==
  (pc = "done" /\ (Le(state.length, Zero) \/ Le(state.spacing, Zero)))
    => result.spaces = <<>> /\ Len(result.points) <= 1

\* C7: for length > 0 the first point is at x = 0 and the last point at
\* x = length exactly.
EndsAtSpanEnd ==
  (pc = "done" /\ Gt(state.length, Zero))
    => /\ result.points[1].x = Zero
       /\ result.points[Len(result.points)].x = state.length

\* C8: for length > 0 and spacing > 0 every segment calculateSpaces returns
\* is strictly positive.
SegmentsPositive ==
  (pc = "done" /\ Gt(state.length, Zero) /\ Gt(state.spacing, Zero))
    => \A i \in 1..Len(segments) : Gt(segments[i], Zero)

\* C9: for length > 0 every point of the result has 0 <= x <= length.
PointRange ==
  (pc = "done" /\ Gt(state.length, Zero))
    => \A i \in 1..Len(result.points) :
         Ge(result.points[i].x, Zero) /\ Le(result.points[i].x, state.length)

\* C9 happens: the segments add up to more than the length, and the sample
\* they would put past the span end is in the result
PointRangeReached ==
  /\ pc = "done"
  /\ Gt(state.length, Zero)
  /\ Gt(SumSeq(calculateSpaces(state.length, state.spacing, state.unit)),
        state.length)
  /\ Len(result.points) >= 3

\* C10: the result has one segment less than points, as many drapes as
\* points, and each drape is the label of the point at the same index (the
\* same number, NaN included).
ResultShape ==
  pc = "done"
    => /\ Len(result.spaces) = Len(result.points) - 1
       /\ Len(result.drapes) = Len(result.points)
       /\ \A i \in 1..Len(result.points) :
            result.drapes[i] = result.points[i].label

\* C10 happens: the safety net has appended an end point and a segment
ResultShapeReached ==
  /\ pc = "done"
  /\ Len(result.spaces) =
       Len(calculateSpaces(state.length, state.spacing, state.unit)) + 1
  /\ Len(result.points) >= 3

\* the remainder and the count of whole spacings of the configuration
RemOf(st) == Rem(st.length, st.spacing)

CountOf(st) == MathFloor(Div(st.length, st.spacing))[1]

\* calculateSpaces has been applied to a positive length and spacing
SpacesDone ==
  pc = "done" /\ Gt(state.length, Zero) /\ Gt(state.spacing, Zero)

\* the remainder is within 0.01 of 0 or of the spacing
ExactCase(st) ==
  \/ Lt(RemOf(st), Q(1, 100))
  \/ Lt(MathAbs(Sub(RemOf(st), st.spacing)), Q(1, 100))

\* the remainder is at least 0.7 of the spacing
LargeCase(st) == ~ExactCase(st) /\ Ge(RemOf(st), Mul(Q(7, 10), st.spacing))

\* the remainder is between 0.01 and 0.7 of the spacing
SmallCase(st) == ~ExactCase(st) /\ Lt(RemOf(st), Mul(Q(7, 10), st.spacing))

\* the segments from index k on are all the spacing
StandardFrom(k) == \A i \in k..Len(segments) : segments[i] = state.spacing

\* C11: when length > 0, spacing > 0 and length mod spacing is within 0.01
\* of 0 or of spacing, calculateSpaces returns floor(length/spacing) copies of
\* spacing and nothing else.
ExactMultiple ==
  (SpacesDone /\ ExactCase(state))
    => Len(segments) = CountOf(state) /\ StandardFrom(1)

\* C11 happens: 7000 / 1000 metric gives seven 1000s
ExactMultipleReached ==
  /\ SpacesDone
  /\ state.length = I(7000) /\ state.spacing = I(1000) /\ state.unit = "metric"
  /\ segments = <<I(1000), I(1000), I(1000), I(1000), I(1000), I(1000), I(1000)>>

\* C12: when the remainder is not an exact-multiple case and is at least
\* 0.7*spacing (the boundary included), calculateSpaces returns the remainder
\* followed by floor(length/spacing) copies of spacing.
LargeRemainder ==
  (SpacesDone /\ LargeCase(state))
    => /\ Len(segments) = CountOf(state) + 1
       /\ segments[1] = RemOf(state)
       /\ StandardFrom(2)

\* C12 happens: 5700 / 1000, the remainder exactly 0.7 * spacing
LargeRemainderReached ==
  /\ SpacesDone
  /\ state.length = I(5700) /\ state.spacing = I(1000)
  /\ RemOf(state) = Mul(Q(7, 10), state.spacing)
  /\ segments = <<I(700), I(1000), I(1000), I(1000), I(1000), I(1000)>>

\* the metric rule for spacing 1000 applies to the configuration
Metric1000(st) ==
  st.unit = "metric" /\ Lt(MathAbs(Sub(st.spacing, I(1000))), I(1))

\* a is b rounded to 2 decimals
RoundedTo2(a, b) ==
  Mul(a, I(100))[2] = 1 /\ Le(MathAbs(Sub(a, b)), Q(1, 200))

\* C13: when 0.01 <= rem < 0.7*spacing, calculateSpaces returns s1, s2 and
\* count - 1 copies of spacing, count + 1 segments in all, with
\* s1 + s2 = spacing + rem; outside the metric-1000 rule s1 is
\* floor((spacing+rem)/2) for metric and (spacing+rem)/2 rounded to 2 decimals
\* for imperial.
SmallRemainder ==
  (SpacesDone /\ SmallCase(state))
    => /\ Len(segments) = CountOf(state) + 1
       /\ Add(segments[1], segments[2]) = Add(state.spacing, RemOf(state))
       /\ StandardFrom(3)
       /\ (~Metric1000(state) /\ state.unit = "metric")
            => /\ segments[1][2] = 1
               /\ Le(segments[1], Div(Add(state.spacing, RemOf(state)), I(2)))
               /\ Lt(Div(Add(state.spacing, RemOf(state)), I(2)),
                     Add(segments[1], I(1)))
       /\ state.unit = "imperial"
            => RoundedTo2(segments[1], Div(Add(state.spacing, RemOf(state)), I(2)))

\* C14: for unit metric, spacing 1000 and a small remainder, s1 is a multiple
\* of 100 with s1 <= s2 < s1 + 200 and s1 + s2 = 1000 + rem; for imperial
\* with the same numbers the split is even (s1 is half of 1000 + rem, rounded
\* to 2 decimals).
Metric1000Split ==
  (SpacesDone /\ SmallCase(state) /\ state.spacing = I(1000))
    => /\ Add(segments[1], segments[2]) = Add(I(1000), RemOf(state))
       /\ state.unit = "metric"
            => /\ Div(segments[1], I(100))[2] = 1
               /\ Le(segments[1], segments[2])
               /\ Lt(segments[2], Add(segments[1], I(200)))
       /\ state.unit = "imperial"
            => RoundedTo2(segments[1], Div(Add(I(1000), RemOf(state)), I(2)))

\* C14 happens: 5100 / 1000 metric gives 500, 600 and four 1000s, where the
\* even split would give 550, 550
Metric1000SplitReached ==
  /\ SpacesDone
  /\ state.length = I(5100) /\ state.spacing = I(1000) /\ state.unit = "metric"
  /\ segments = <<I(500), I(600), I(1000), I(1000), I(1000), I(1000)>>

\* What the override texts of the model denote, read as the field is
\* documented: an absolute distance, or a percentage of the span length.
AbsoluteTexts ==
  { << <<"0">>, Zero >>, << <<"-", "1">>, I(-1) >>, << <<"1">>, I(1) >>,
    << <<" ", "1", ".", "5", " ">>, Q(3, 2) >>, << <<"2", "m", "m">>, I(2) >>,
    << <<"9", "9">>, I(99) >> }

PercentTexts ==
  { << <<"0", "%">>, Zero >>, << <<"2", "5", "%">>, I(25) >>,
    << <<"5", "0", "%">>, I(50) >>, << <<"1", "0", "0", "%">>, I(100) >> }

\* the distance the override text of st denotes, or null when it denotes none
Denoted(st) ==
  IF \E e \in AbsoluteTexts : e[1] = st.inflectionPt
  THEN (CHOOSE e \in AbsoluteTexts : e[1] = st.inflectionPt)[2]
  ELSE IF \E e \in PercentTexts : e[1] = st.inflectionPt
  THEN Mul(Div((CHOOSE e \in PercentTexts : e[1] = st.inflectionPt)[2], I(100)),
           st.length)
  ELSE null

\* the override is empty, blank, not a number, or not positive
InvalidOverride(st) == Denoted(st) = null \/ Le(Denoted(st), Zero)

NoOverride(st) == [st EXCEPT !.inflectionPt = <<>>]

\* the auto distance as documented: 2*|h|*R/segLen, at most half the segment
AutoExpected(st, segLen) ==
  IF Le(segLen, Zero) \/ st.highPt = st.lowPt THEN Zero
  ELSE MathMin(Div(Mul(Mul(I(2), MathAbs(Sub(st.highPt, st.lowPt))), st.minRadius),
                   segLen),
               Div(segLen, I(2)))

\* C15: when the override text denotes a value > 0 (a percentage being taken
\* of the total length, whatever the segment), getInflectionDist(segLen)
\* returns min(value, segLen), which never exceeds segLen.
ValidOverride ==
  (pc = "done" /\ ~InvalidOverride(state))
    => retY = MathMin(Denoted(state), argX) /\ Le(retY, argX)

\* C15 happens: 25% of the total length 4, asked for the half span
ValidOverrideReached ==
  /\ pc = "done"
  /\ state.inflectionPt = <<"2", "5", "%">>
  /\ state.length = I(4)
  /\ argX = I(2)
  /\ retY = I(1)

\* C16: when the override is empty, blank, non-numeric or not positive,
\* getInflectionDist returns what it returns without an override, and the
\* whole result of calculateProfile equals the result without an override.
AutoFallback ==
  (pc = "done" /\ InvalidOverride(state))
    => /\ result = calculateProfile(NoOverride(state))
       /\ \A segLen \in {state.length, Div(state.length, I(2))} :
            getInflectionDist(state, segLen) =
              getInflectionDist(NoOverride(state), segLen)

\* C16 happens: variant 2 with the override "-1", the transition point placed
\* at the auto distance 2*2*1/4 = 1
AutoFallbackReached ==
  /\ pc = "done"
  /\ state.inflectionPt = <<"-", "1">>
  /\ state.selectedProfile = 2
  /\ Len(result.inflectionPoints) = 1
  /\ result.inflectionPoints[1].x = I(1)

\* C17: with no valid override getInflectionDist(segLen) is 0 when
\* segLen <= 0 or highPt = lowPt, and min(2*|h|*minRadius/segLen, segLen/2)
\* otherwise; for minRadius >= 0 it is not negative and, on a segment of
\* positive length, not beyond the segment's midpoint.
AutoDistance ==
  (pc = "done" /\ InvalidOverride(state))
    => /\ retY = AutoExpected(state, argX)
       /\ Ge(state.minRadius, Zero)
            => /\ Ge(retY, Zero)
               /\ Gt(argX, Zero) => Le(retY, Div(argX, I(2)))

\* C17 happens: the analytic distance 2*2*4/4 = 4 limited to half of 4
AutoDistanceReached ==
  /\ pc = "done"
  /\ state.inflectionPt = <<>>
  /\ argX = I(4)
  /\ MathAbs(Sub(state.highPt, state.lowPt)) = I(2)
  /\ state.minRadius = I(4)
  /\ retY = I(2)

\* the coefficient A of the reverse curve highPt - A*x^2 of variant 2, read
\* off the curve at x = 1, and the radius of curvature 1/(2*|A|) at its vertex
ReverseCurveA(st) == Sub(st.highPt, Y2Reverse(st, XInfl(st), I(1)))

RadiusAtVertex(st) == Div(I(1), Mul(I(2), MathAbs(ReverseCurveA(st))))

\* C18: for variant 2 with length > 0, highPt # lowPt, minRadius > 0 and no
\* override, the radius of curvature of the reverse curve at its vertex is
\* not below minRadius, also when the auto distance is limited to length/2.
MinRadiusRespected ==
  (pc = "done" /\ state.selectedProfile = 2 /\ Gt(state.length, Zero)
     /\ state.highPt # state.lowPt /\ Gt(state.minRadius, Zero)
     /\ state.inflectionPt = <<>>)
    => Ge(RadiusAtVertex(state), state.minRadius)

\* a finite b >= 0 rounded to 3 decimals, halves up
RoundTo3(b) == Q((2000 * b[1] + b[2]) \div (2 * b[2]), 1000)

\* the beta summation as documented
BetaExpected(st) ==
  IF Gt(st.length, Zero)
  THEN RoundTo3(Div(Mul(I(4), MathAbs(Sub(st.highPt, st.lowPt))), st.length))
  ELSE Zero

\* a configuration that differs from st in the variant, the spacing, the
\* minimum radius and the override only
OtherSettings(st) ==
  [st EXCEPT !.selectedProfile = 9, !.spacing = Zero, !.minRadius = Zero,
     !.inflectionPt = <<"1">>]

\* C19: betaSum is 4*|highPt - lowPt|/length rounded to 3 decimals for
\* length > 0 and 0 for length <= 0, a function of length, highPt and lowPt
\* alone: it is never negative and is the same for another variant, spacing,
\* minimum radius and override.
BetaSummation ==
  pc = "done"
    => /\ result.betaSum = BetaExpected(state)
       /\ Ge(result.betaSum, Zero)
       /\ calculateProfile(OtherSettings(state)).betaSum = result.betaSum

\* C19 happens: length 7000, highPt 450, lowPt 45 give 0.231
BetaSummationReached ==
  /\ pc = "done"
  /\ state.length = I(7000) /\ state.highPt = I(450) /\ state.lowPt = I(45)
  /\ result.betaSum = Q(231, 1000)

\* C20: the result has at most 2 inflection points and each has
\* 0 < x < length; a candidate at x <= 0 or x >= length is dropped.
InflectionInterior ==
  pc = "done"
    => /\ Len(result.inflectionPoints) \in {0, 1, 2}
       /\ \A i \in 1..Len(result.inflectionPoints) :
            /\ Gt(result.inflectionPoints[i].x, Zero)
            /\ Lt(result.inflectionPoints[i].x, state.length)

\* C20 happens: variant 2 with the override 99 limited to the full length 4,
\* the candidate at x = length dropped
InflectionInteriorReached ==
  /\ pc = "done"
  /\ state.selectedProfile = 2
  /\ state.inflectionPt = <<"9", "9">>
  /\ state.length = I(4)
  /\ state.highPt # state.lowPt
  /\ getInflectionDist(state, state.length) = state.length
  /\ result.inflectionPoints = <<>>

\* C21: when highPt = lowPt and the variant is 2, 3, 5 or 6, the result has
\* no inflection point, whatever the override, minRadius and length are.
ZeroSagSuppressed ==
  (pc = "done" /\ state.highPt = state.lowPt
     /\ state.selectedProfile \in {2, 3, 5, 6})
    => result.inflectionPoints = <<>>

\* C21 happens: zero sag with an override that places the transition point
\* strictly inside the span
ZeroSagSuppressedReached ==
  /\ pc = "done"
  /\ state.highPt = state.lowPt
  /\ state.selectedProfile = 2
  /\ state.inflectionPt = <<"1">>
  /\ state.length = I(4)
  /\ getInflectionDist(state, state.length) = I(1)
  /\ result.inflectionPoints = <<>>

\* the candidate positions of a variant, in the order they are reported:
\* those of variants 2, 3, 5 and 6 only with a sag, those of variants 4 and 8
\* always
Candidates(st) ==
  CASE st.selectedProfile \in {2, 5} /\ st.highPt # st.lowPt ->
         <<getInflectionDist(st, st.length)>>
    [] st.selectedProfile = 6 /\ st.highPt # st.lowPt ->
         <<Sub(st.length, getInflectionDist(st, st.length))>>
    [] st.selectedProfile = 3 /\ st.highPt # st.lowPt ->
         <<getInflectionDist(st, Div(st.length, I(2))),
           Sub(st.length, getInflectionDist(st, Div(st.length, I(2))))>>
    [] st.selectedProfile = 4 ->
         <<Mul(Q(1, 4), st.length), Mul(Q(3, 4), st.length)>>
    [] st.selectedProfile = 8 -> <<Div(st.length, I(2))>>
    [] OTHER -> <<>>

\* the candidates strictly inside the span, each with its height
RECURSIVE InteriorOf(_, _)
InteriorOf(st, xs) ==
  IF xs = <<>> THEN <<>>
  ELSE IF Gt(Head(xs), Zero) /\ Lt(Head(xs), st.length)
       THEN <<[x |-> Head(xs), y |-> calculateY(st, Head(xs))]>>
              \o InteriorOf(st, Tail(xs))
       ELSE InteriorOf(st, Tail(xs))

\* C22: for length > 0 the inflection points reported are the interior ones
\* of the variant's candidates (variants 2, 5: getInflectionDist(length);
\* 6: length - getInflectionDist(length); 3: d = getInflectionDist(length/2)
\* and length - d; 4: length/4 and 3*length/4; 8: length/2; others none), in
\* ascending x, each with y = calculateY(x).
InflectionPositions ==
  (pc = "done" /\ Gt(state.length, Zero))
    => /\ result.inflectionPoints = InteriorOf(state, Candidates(state))
       /\ \A i \in 1..(Len(result.inflectionPoints) - 1) :
            Le(result.inflectionPoints[i].x, result.inflectionPoints[i + 1].x)

\* C22 happens: variant 3 with its two mirrored points, the distance being
\* that of the half span and different from that of the whole span
InflectionPositionsReached ==
  /\ pc = "done"
  /\ state.selectedProfile = 3
  /\ Gt(state.length, Zero)
  /\ Len(result.inflectionPoints) = 2
  /\ Lt(result.inflectionPoints[1].x, result.inflectionPoints[2].x)
  /\ getInflectionDist(state, state.length)
       # getInflectionDist(state, Div(state.length, I(2)))

\* C23: for an increment inc > 0 and a height y, roundValue(y) is the
\* multiple k*inc with k the integer nearest to y/inc (halves up), and
\* rounding it again returns it unchanged.
RoundingIdempotent ==
  (pc = "done" /\ Gt(state.rounding, Zero))
    => /\ roundValue(state, retY) = retY
       /\ Div(retY, state.rounding)[2] = 1
       /\ Le(Div(retY, state.rounding), Add(Div(argX, state.rounding), Q(1, 2)))
       /\ Lt(Sub(Div(argX, state.rounding), Q(1, 2)), Div(retY, state.rounding))

\* C23 happens: -3/8 is one and a half increments of 1/4 below zero, and
\* is rounded up to -1/4
RoundingIdempotentReached ==
  /\ pc = "done"
  /\ state.rounding = Q(1, 4)
  /\ argX = Q(-3, 8)
  /\ retY = Q(-1, 4)

\* the same configuration with the other unit tag
OtherUnit(st) ==
  [st EXCEPT !.unit = IF st.unit = "metric" THEN "imperial" ELSE "metric"]

\* C25: two configurations that differ only in unit give the same
\* calculateY at every sampled x of either, the same betaSum and the same
\* inflection points; their segment lists differ only in the small-remainder
\* branch.
UnitIndependent ==
  pc = "done"
    => LET other == calculateProfile(OtherUnit(state))
       IN  /\ other.betaSum = result.betaSum
           /\ other.inflectionPoints = result.inflectionPoints
           /\ \A i \in 1..Len(result.points) :
                calculateY(OtherUnit(state), result.points[i].x)
                  = result.points[i].y
           /\ \A i \in 1..Len(other.points) :
                calculateY(state, other.points[i].x) = other.points[i].y
           /\ other.spaces # result.spaces
                => /\ Gt(state.length, Zero) /\ Gt(state.spacing, Zero)
                   /\ SmallCase(state)

\* C25 happens: the units split a small remainder differently, and the
\* heights are sampled at different positions
UnitIndependentReached ==
  /\ pc = "done"
  /\ calculateProfile(OtherUnit(state)).spaces # result.spaces
  /\ Len(result.points) >= 3
  /\ Len(calculateProfile(OtherUnit(state)).points) >= 3
  /\ calculateProfile(OtherUnit(state)).points[2].x # result.points[2].x
  /\ Gt(result.points[2].x, Zero)
  /\ Lt(result.points[2].x, state.length)
  /\ SumSeq(result.spaces) = state.length

\* C26: for variants 3 and 4 and length > 0, calculateY(x) equals
\* calculateY(length - x) for x in [0, length]; the middle of variant 3 is at
\* lowPt, and variant 4 is at lowPt on [length/4, 3*length/4].
MirrorSymmetry ==
  (pc = "done" /\ state.selectedProfile \in {3, 4} /\ Gt(state.length, Zero)
     /\ Ge(argX, Zero) /\ Le(argX, state.length))
    => /\ retY = calculateY(state, Sub(state.length, argX))
       /\ (state.selectedProfile = 3 /\ argX = Div(state.length, I(2)))
            => retY = state.lowPt
       /\ (state.selectedProfile = 4 /\ Ge(argX, Mul(Q(1, 4), state.length))
             /\ Le(argX, Mul(Q(3, 4), state.length)))
            => retY = state.lowPt

\* the left piece of variant 8, a parabola with its vertex at (0, highPt),
\* continued to the midpoint from its value at a quarter of the span
LeftPieceAtMid(st) ==
  Sub(st.highPt,
      Mul(I(4), Sub(st.highPt, calculateY(st, Div(st.length, I(4))))))

\* the right piece of variant 8, a parabola with its vertex at
\* (length, lowPt), continued to the midpoint from its value at three quarters
RightPieceAtMid(st) ==
  Add(st.lowPt,
      Mul(I(4), Sub(calculateY(st, Mul(Q(3, 4), st.length)), st.lowPt)))

\* C27: for variant 8 and length > 0, calculateY(length/2) is
\* (highPt + lowPt)/2, and the left and the right piece take that value at
\* length/2.
MidpointVariant8 ==
  (pc = "done" /\ state.selectedProfile = 8 /\ Gt(state.length, Zero)
     /\ argX = Div(state.length, I(2)))
    => /\ retY = Div(Add(state.highPt, state.lowPt), I(2))
       /\ LeftPieceAtMid(state) = retY
       /\ RightPieceAtMid(state) = retY

\* C27 happens: a midpoint strictly between different end heights
MidpointVariant8Reached ==
  /\ pc = "done"
  /\ state.selectedProfile = 8
  /\ argX = Div(state.length, I(2))
  /\ Gt(state.length, Zero)
  /\ Lt(state.lowPt, retY) /\ Lt(retY, state.highPt)

\* C28: for length > 0 and spacing > 0, consecutive points are one segment
\* apart, points[i+1].x - points[i].x = spaces[i], and x is strictly
\* increasing.
PointsMatchSpaces ==
  (pc = "done" /\ Gt(state.length, Zero) /\ Gt(state.spacing, Zero))
    => \A i \in 1..(Len(result.points) - 1) :
         /\ i <= Len(result.spaces)
         /\ Sub(result.points[i + 1].x, result.points[i].x) = result.spaces[i]
         /\ Lt(result.points[i].x, result.points[i + 1].x)

\* C29: for the variants 1-8 with length > 0, highPt > lowPt, minRadius > 0
\* and no override, lowPt <= calculateY(x) <= highPt for x in [0, length], and
\* for the variants 1, 2, 5, 6, 7, 8 the height does not increase with x.
HeightsBounded ==
  (pc = "done" /\ state.selectedProfile \in 1..8 /\ Gt(state.length, Zero)
     /\ Gt(state.highPt, state.lowPt) /\ Gt(state.minRadius, Zero)
     /\ state.inflectionPt = <<>>
     /\ Ge(argX, Zero) /\ Le(argX, state.length))
    => /\ Le(state.lowPt, retY) /\ Le(retY, state.highPt)
       /\ state.selectedProfile \in {1, 2, 5, 6, 7, 8}
            => \A x2 \in XSamples(state) :
                 (Le(argX, x2) /\ Le(x2, state.length))
                   => Le(calculateY(state, x2), retY)

\* C29 happens: variant 7 strictly inside the span, strictly between the
\* end heights
HeightsBoundedReached ==
  /\ pc = "done"
  /\ state.selectedProfile = 7
  /\ state.inflectionPt = <<>>
  /\ Gt(state.minRadius, Zero)
  /\ Gt(argX, Zero) /\ Lt(argX, state.length)
  /\ Lt(state.lowPt, retY) /\ Lt(retY, state.highPt)

NeverStale == pc = "idle" => result = calculateProfile(state)

\* C30 happens: after a unit toggle, a profile selection and a change of the
\* anchors, the effect has run
NeverStaleReached ==
  /\ pc = "idle"
  /\ state.unit = "imperial"
  /\ state.selectedProfile = 5
  /\ state.anchors = "both"
  /\ state.highPt = Q(177, 100)
  /\ Len(result.points) >= 2

====
